---- MODULE Spec2Model ----
(***************************************************************************)
(* The JSON-file article store of src/0104.py (class MockDatabase): one    *)
(* backing file shared by the store instances of several processes, each   *)
(* instance holding its own in-memory copy of the collection.              *)
(*                                                                         *)
(* Text is a sequence of one-character strings wherever the code computes  *)
(* on it (content: str.strip, category: str.lower); a title is only ever   *)
(* stored and compared, and is a string.                                   *)
(***************************************************************************)
EXTENDS Integers, Sequences, FiniteSets, TLC

VARIABLES
    file,       \* the backing file at db_path
    db,         \* per instance: whether it is constructed, and self.data
    ret,        \* the last call: its operation, arguments and outcome
    returned,   \* per instance: the ids add_article returned, in call order
    lastWrite,  \* history: the last completed write of the file
    adds,       \* number of add_article calls made so far
    failed,     \* per instance: the ids its add_article calls that raised assigned
    calls,      \* TextSummarizer: the texts the last call passed to self.pipeline
    out,        \* TextSummarizer: the last call, its arguments and outcome
    pc,         \* setup.py: the step main is about to run
    env,        \* setup.py: the interpreter, the platform, whether venv/ exists
    log,        \* setup.py: the steps run so far, each with its outcome
    status      \* setup.py: "running", or the exit status of the script

storeVars == <<file, db, ret, returned, lastWrite, adds, failed>>

sumVars == <<calls, out>>

setupVars == <<pc, env, log, status>>

vars == <<storeVars, sumVars, setupVars>>

(* ------------------------------ bounds --------------------------------- *)

\* add_article calls in one behaviour
MaxAdds == 2

\* the store instances (one per process) sharing the backing file
Inst == {"A", "B"}

(* ------------------------------- text ---------------------------------- *)

\* the ASCII whitespace str.strip() removes
Whitespace == {" ", "\t", "\n", "\r"}

UpperCase == <<"A", "B", "C", "D", "E", "F", "G", "H", "I", "J", "K", "L", "M",
               "N", "O", "P", "Q", "R", "S", "T", "U", "V", "W", "X", "Y", "Z">>

LowerCase == <<"a", "b", "c", "d", "e", "f", "g", "h", "i", "j", "k", "l", "m",
               "n", "o", "p", "q", "r", "s", "t", "u", "v", "w", "x", "y", "z">>

\* str.lower() on one character
lower_char(ch) ==
    IF \E k \in 1..26 : UpperCase[k] = ch
    THEN LowerCase[CHOOSE k \in 1..26 : UpperCase[k] = ch]
    ELSE ch

\* str.lower()
lower(s) == [k \in 1..Len(s) |-> lower_char(s[k])]

RECURSIVE lstrip(_)
lstrip(s) ==
    IF s = <<>> THEN s
    ELSE IF Head(s) \in Whitespace THEN lstrip(Tail(s)) ELSE s

RECURSIVE rstrip(_)
rstrip(s) ==
    IF s = <<>> THEN s
    ELSE IF s[Len(s)] \in Whitespace THEN rstrip(SubSeq(s, 1, Len(s) - 1)) ELSE s

\* str.strip()
strip(s) == rstrip(lstrip(s))

(* ------------------------------ the data ------------------------------- *)

\* a dict {"articles": [...]} (keyed) or a dict without that key
Data(keyed, articles) == [keyed |-> keyed, articles |-> articles]

\* self.data.get("articles", [])
get_articles(data) == IF data.keyed THEN data.articles ELSE <<>>

Article(id, title, content, category) ==
    [id |-> id, title |-> title, content |-> content, category |-> category]

\* the seed collection numbered from 0
default_data_from_zero ==
    Data(TRUE,
         << Article(0, "Artificial Intelligence Revolution",
                    <<"\n", " ", "A", "I", " ", "o", "r", "g", ".", "\n", " ">>,
                    <<"T", "e", "c", "h", "n", "o", "l", "o", "g", "y">>),
            Article(1, "Climate Change and Renewable Energy",
                    <<"\n", " ", "C", "l", " ", "s", "e", "c", ".", "\n", " ">>,
                    <<"E", "n", "v", "i", "r", "o", "n", "m", "e", "n", "t">>),
            Article(2, "The Future of Remote Work",
                    <<"\n", " ", "T", "h", " ", "s", "t", "d", ".", "\n", " ">>,
                    <<"B", "u", "s", "i", "n", "e", "s", "s">>) >>)

\* the seed collection of _load_data; each content is the triple-quoted
\* block of the source cut down to its first and last words, with the line
\* breaks and indentation around it that the source stores unstripped
default_data ==
    Data(TRUE,
         << Article(1, "Artificial Intelligence Revolution",
                    <<"\n", " ", "A", "I", " ", "o", "r", "g", ".", "\n", " ">>,
                    <<"T", "e", "c", "h", "n", "o", "l", "o", "g", "y">>),
            Article(2, "Climate Change and Renewable Energy",
                    <<"\n", " ", "C", "l", " ", "s", "e", "c", ".", "\n", " ">>,
                    <<"E", "n", "v", "i", "r", "o", "n", "m", "e", "n", "t">>),
            Article(3, "The Future of Remote Work",
                    <<"\n", " ", "T", "h", " ", "s", "t", "d", ".", "\n", " ">>,
                    <<"B", "u", "s", "i", "n", "e", "s", "s">>) >>)

(* ------------------------------ the file ------------------------------- *)

Absent == [kind |-> "absent", keyed |-> FALSE, articles |-> <<>>]

\* content that json.load rejects (also: a truncated write)
Malformed == [kind |-> "malformed", keyed |-> FALSE, articles |-> <<>>]

\* json.dump(data, f, indent=2, ensure_ascii=False): the text of the object
json_dump(data) ==
    [kind |-> "json", keyed |-> data.keyed, articles |-> get_articles(data)]

\* json.load(f) on well-formed text
json_load(f) == Data(f.keyed, f.articles)

\* exists() taken to mean: there is a file that can be loaded
exists_and_parses(f) == f.kind = "json"

\* exists() taken to mean: there is a file with articles in it
exists_with_articles(f) == f.kind # "absent" /\ f.articles # <<>>

\* self.db_path.exists()
exists(f) == f.kind # "absent"

\* whether json.load(f) returns (TRUE) or raises JSONDecodeError
parses(f) == f.kind = "json"

\* what the environment does to a write: it completes, open() fails, or the
\* write stops part-way after open() truncated the file
IoOutcomes == {"ok", "openfail", "partial"}

\* _save_data that never writes
save_data_skipped(old, data, io) == old

\* _save_data that adds the newest article to what the file holds
save_data_appending(old, data, io) ==
    CASE io = "ok"       -> [kind |-> "json", keyed |-> TRUE,
                             articles |-> old.articles \o
                                 SubSeq(data.articles, Len(data.articles),
                                        Len(data.articles))]
      [] io = "openfail" -> old
      [] io = "partial"  -> Malformed

\* _save_data that writes the newest article only
save_data_newest_only(old, data, io) ==
    CASE io = "ok"       -> [kind |-> "json", keyed |-> TRUE,
                             articles |-> SubSeq(data.articles, Len(data.articles),
                                                 Len(data.articles))]
      [] io = "openfail" -> old
      [] io = "partial"  -> Malformed

\* _save_data: the file after the call
save_data(old, data, io) ==
    CASE io = "ok"       -> json_dump(data)
      [] io = "openfail" -> old
      [] io = "partial"  -> Malformed

\* a write made through a temporary file and a rename: a crash leaves the
\* old file
crashed_save_atomic(old, data) == old

\* _save_data when the process dies after open(db_path, 'w') has truncated
\* the file and before json.dump has written it all
crashed_save(old, data) == Malformed

(* --------------------------- pure operations --------------------------- *)

\* max([a["id"] for a in articles], default=1)
max_id_default_one(articles) ==
    IF articles = <<>> THEN 1
    ELSE LET ids == {articles[k].id : k \in 1..Len(articles)}
         IN  CHOOSE m \in ids : \A n \in ids : n <= m

\* max([a["id"] for a in articles], default=0)
max_id(articles) ==
    IF articles = <<>> THEN 0
    ELSE LET ids == {articles[k].id : k \in 1..Len(articles)}
         IN  CHOOSE m \in ids : \A n \in ids : n <= m

\* new_id as the number of articles plus one
new_id_by_count(articles) == Len(articles) + 1

\* add_article: new_id
new_id(articles) == max_id(articles) + 1

\* new_article with the content as passed
new_article_unstripped(id, title, content, category) ==
    Article(id, title, content, category)

\* add_article: new_article
new_article(id, title, content, category) ==
    Article(id, title, strip(content), category)

\* add_article: articles.append(new_article) putting the article first
prepended(articles, article) == <<article>> \o articles

\* add_article: articles.append(new_article)
appended(articles, article) == Append(articles, article)

\* get_all_articles
get_all_articles(data) == get_articles(data)

\* get_article_by_id that returns the loop variable after the loop
get_article_by_id_last_scanned(data, article_id) ==
    LET articles == get_articles(data)
        hits == {k \in 1..Len(articles) : articles[k].id = article_id}
    IN  IF hits = {}
        THEN SubSeq(articles, Len(articles), Len(articles))
        ELSE <<articles[CHOOSE k \in hits : \A j \in hits : k <= j]>>

\* get_article_by_id: the first article with that id, <<a>>, or None, <<>>
get_article_by_id(data, article_id) ==
    LET articles == get_articles(data)
        hits == {k \in 1..Len(articles) : articles[k].id = article_id}
    IN  IF hits = {} THEN <<>>
        ELSE <<articles[CHOOSE k \in hits : \A j \in hits : k <= j]>>

\* get_articles_by_category comparing the categories as they are
get_articles_by_category_exact(data, category) ==
    LET match(a) == a.category = category
    IN  SelectSeq(get_articles(data), match)

\* get_articles_by_category
get_articles_by_category(data, category) ==
    LET match(a) == lower(a.category) = lower(category)
    IN  SelectSeq(get_articles(data), match)

(* ------------------------------- inputs -------------------------------- *)

\* the (title, content, category) arguments of add_article: a content with
\* whitespace around it and one with whitespace inside only, an empty title,
\* two categories that differ in case only
AddArgs ==
    { <<"New", <<" ", "x", "\n">>, <<"A", "i">> >>,
      <<"", <<"x", " ", "y">>, <<"a", "I">> >> }

\* the arguments of get_articles_by_category
CategoryArgs ==
    { <<"A", "i">>, <<"a", "I">>,
      <<"t", "e", "c", "h", "n", "o", "l", "o", "g", "y">> }

\* the id test.py never finds
MissingId == 9999

\* the arguments of get_article_by_id on a collection: the id test.py asks
\* for, the largest id in it, and a miss
IdArgs(data) == {1, max_id(get_articles(data)), MissingId}

\* the backing file when the first store is constructed: none, unparsable
\* text, an object without "articles", an empty list, or a list edited by
\* hand (unique ids, not in order)
InitFiles ==
    { Absent,
      Malformed,
      json_dump(Data(FALSE, <<>>)),
      json_dump(Data(TRUE, <<>>)),
      json_dump(Data(TRUE, << Article(7, "Old", <<"o">>, <<"A", "I">>),
                              Article(2, "Older", <<"p">>, <<"B">>) >>)) }

(* ------------------------------ the state ------------------------------ *)

NoInstance == [state |-> "none", data |-> Data(FALSE, <<>>)]

\* the record of a call: op and inst say which, io what the environment did
\* to its write, kind whether it returned ("ok") or raised ("error", err the
\* exception); id is the id passed or returned, title, content and category
\* the arguments as passed, arts the articles returned (for get_article_by_id
\* <<a>> or, for None, <<>>)
NoRet ==
    [op |-> "none", inst |-> "-", io |-> "none", kind |-> "none", err |-> "",
     id |-> 0, title |-> "", content |-> <<>>, category |-> <<>>,
     arts |-> <<>>]

\* no call of the summarizer made
NoOut ==
    [op |-> "none", texts |-> <<>>, outcomes |-> <<>>, kind |-> "none",
     err |-> "", results |-> <<>>]

SummarizerInit ==
    /\ calls = <<>>
    /\ out = NoOut

\* setup.py not run
NoEnv == [major |-> 0, minor |-> 0, nt |-> FALSE, venv_exists |-> FALSE]

SetupIdle ==
    /\ pc = "idle"
    /\ env = NoEnv
    /\ log = <<>>
    /\ status = "idle"

Init ==
    /\ SummarizerInit
    /\ SetupIdle
    /\ file \in InitFiles
    /\ db = [i \in Inst |-> NoInstance]
    /\ ret = NoRet
    /\ returned = [i \in Inst |-> <<>>]
    /\ lastWrite = NoRet
    /\ adds = 0
    /\ failed = [i \in Inst |-> <<>>]

Loaded(i) == db[i].state = "loaded"

(* ----------------------------- operations ------------------------------ *)

\* MockDatabase(db_path): __init__ and _load_data, with the seed write of
\* _save_data when the file does not exist
load_data(i, io) ==
    /\ ~Loaded(i)
    /\ IF exists(file)
       THEN /\ io = "ok"
            /\ IF parses(file)
               THEN /\ db' = [db EXCEPT ![i] = [state |-> "loaded",
                                                data |-> json_load(file)]]
                    /\ ret' = [NoRet EXCEPT !.op = "init", !.inst = i, !.kind = "ok"]
               ELSE /\ db' = db
                    /\ ret' = [NoRet EXCEPT !.op = "init", !.inst = i,
                                            !.kind = "error", !.err = "JSONDecodeError"]
            /\ UNCHANGED <<file, lastWrite>>
       ELSE /\ file' = save_data(file, default_data, io)
            /\ IF io = "ok"
               THEN /\ db' = [db EXCEPT ![i] = [state |-> "loaded",
                                                data |-> default_data]]
                    /\ ret' = [NoRet EXCEPT !.op = "init", !.inst = i, !.io = io,
                                            !.kind = "ok"]
               ELSE /\ db' = db
                    /\ ret' = [NoRet EXCEPT !.op = "init", !.inst = i, !.io = io,
                                            !.kind = "error", !.err = "OSError"]
            /\ lastWrite' = IF io = "openfail" THEN lastWrite ELSE ret'
    /\ returned' = [returned EXCEPT ![i] = <<>>]
    /\ failed' = [failed EXCEPT ![i] = <<>>]
    /\ UNCHANGED adds

\* get_all_articles through self.data.setdefault("articles", [])
GetAll_setdefault(i) ==
    /\ Loaded(i)
    /\ ret' = [NoRet EXCEPT !.op = "get_all", !.inst = i, !.kind = "ok",
                            !.arts = get_all_articles(db[i].data)]
    /\ db' = [db EXCEPT ![i].data = Data(TRUE, get_articles(@))]
    /\ UNCHANGED <<file, returned, lastWrite, adds, failed>>

\* get_all_articles answering from the file when it can be read
GetAll_reloading(i) ==
    /\ Loaded(i)
    /\ ret' = [NoRet EXCEPT !.op = "get_all", !.inst = i, !.kind = "ok",
                            !.arts = IF parses(file)
                                     THEN get_all_articles(json_load(file))
                                     ELSE get_all_articles(db[i].data)]
    /\ UNCHANGED <<file, db, returned, lastWrite, adds, failed>>

\* get_all_articles
GetAll(i) ==
    /\ Loaded(i)
    /\ ret' = [NoRet EXCEPT !.op = "get_all", !.inst = i, !.kind = "ok",
                            !.arts = get_all_articles(db[i].data)]
    /\ UNCHANGED <<file, db, returned, lastWrite, adds, failed>>

\* get_article_by_id
GetById(i, article_id) ==
    /\ Loaded(i)
    /\ ret' = [NoRet EXCEPT !.op = "get_by_id", !.inst = i, !.kind = "ok",
                            !.id = article_id,
                            !.arts = get_article_by_id(db[i].data, article_id)]
    /\ UNCHANGED <<file, db, returned, lastWrite, adds, failed>>

\* get_articles_by_category
GetByCategory(i, category) ==
    /\ Loaded(i)
    /\ ret' = [NoRet EXCEPT !.op = "get_by_category", !.inst = i, !.kind = "ok",
                            !.category = category,
                            !.arts = get_articles_by_category(db[i].data, category)]
    /\ UNCHANGED <<file, db, returned, lastWrite, adds, failed>>

\* add_article with the append rolled back when the write fails
add_article_rolled_back(i, title, content, category, io) ==
    /\ Loaded(i)
    /\ adds < MaxAdds
    /\ LET articles == get_articles(db[i].data)
           id       == new_id(articles)
           article  == new_article(id, title, content, category)
           data     == Data(TRUE, appended(articles, article))
           call     == [NoRet EXCEPT !.op = "add", !.inst = i, !.io = io,
                                     !.title = title, !.content = content,
                                     !.category = category]
       IN  /\ db' = IF io = "ok" THEN [db EXCEPT ![i].data = data] ELSE db
           /\ file' = save_data(file, data, io)
           /\ IF io = "ok"
              THEN /\ ret' = [call EXCEPT !.kind = "ok", !.id = id]
                   /\ returned' = [returned EXCEPT ![i] = Append(@, id)]
                   /\ failed' = failed
              ELSE /\ ret' = [call EXCEPT !.kind = "error", !.err = "OSError"]
                   /\ returned' = returned
                   /\ failed' = [failed EXCEPT ![i] = Append(@, id)]
           /\ lastWrite' = IF io = "openfail" THEN lastWrite ELSE ret'
    /\ adds' = adds + 1

\* add_article: the append to self.data happens before _save_data, whose
\* failure leaves it in place and raises instead of returning new_id
add_article(i, title, content, category, io) ==
    /\ Loaded(i)
    /\ adds < MaxAdds
    /\ LET articles == get_articles(db[i].data)
           id       == new_id(articles)
           article  == new_article(id, title, content, category)
           data     == Data(TRUE, appended(articles, article))
           call     == [NoRet EXCEPT !.op = "add", !.inst = i, !.io = io,
                                     !.title = title, !.content = content,
                                     !.category = category]
       IN  /\ db' = [db EXCEPT ![i].data = data]
           /\ file' = save_data(file, data, io)
           /\ IF io = "ok"
              THEN /\ ret' = [call EXCEPT !.kind = "ok", !.id = id]
                   /\ returned' = [returned EXCEPT ![i] = Append(@, id)]
                   /\ failed' = failed
              ELSE /\ ret' = [call EXCEPT !.kind = "error", !.err = "OSError"]
                   /\ returned' = returned
                   /\ failed' = [failed EXCEPT ![i] = Append(@, id)]
           /\ lastWrite' = IF io = "openfail" THEN lastWrite ELSE ret'
    /\ adds' = adds + 1

\* add_article in a process that dies inside _save_data: no call returns,
\* the instance is gone with its process
crash_in_add(i, title, content, category) ==
    /\ Loaded(i)
    /\ adds < MaxAdds
    /\ LET articles == get_articles(db[i].data)
           id       == new_id(articles)
           article  == new_article(id, title, content, category)
           data     == Data(TRUE, appended(articles, article))
       IN  file' = crashed_save(file, data)
    /\ db' = [db EXCEPT ![i] = NoInstance]
    /\ ret' = [NoRet EXCEPT !.op = "add", !.inst = i, !.io = "crash",
                            !.kind = "crash", !.title = title,
                            !.content = content, !.category = category]
    /\ lastWrite' = ret'
    /\ returned' = [returned EXCEPT ![i] = <<>>]
    /\ failed' = [failed EXCEPT ![i] = <<>>]
    /\ adds' = adds + 1

\* MockDatabase(db_path) in a process that dies inside the seed write
crash_in_seed(i) ==
    /\ ~Loaded(i)
    /\ ~exists(file)
    /\ file' = crashed_save(file, default_data)
    /\ ret' = [NoRet EXCEPT !.op = "init", !.inst = i, !.io = "crash",
                            !.kind = "crash"]
    /\ lastWrite' = ret'
    /\ returned' = [returned EXCEPT ![i] = <<>>]
    /\ failed' = [failed EXCEPT ![i] = <<>>]
    /\ UNCHANGED <<db, adds>>

\* the process holding the instance ends (main returns): the in-memory
\* collection is gone, the file stays
Exit(i) ==
    /\ Loaded(i)
    /\ db' = [db EXCEPT ![i] = NoInstance]
    /\ returned' = [returned EXCEPT ![i] = <<>>]
    /\ ret' = [NoRet EXCEPT !.op = "exit", !.inst = i]
    /\ failed' = [failed EXCEPT ![i] = <<>>]
    /\ UNCHANGED <<file, lastWrite, adds>>

Construct == \E i \in Inst, io \in IoOutcomes : load_data(i, io)

ReadAll == \E i \in Inst : GetAll(i)

ReadById == \E i \in Inst : \E article_id \in IdArgs(db[i].data) : GetById(i, article_id)

ReadByCategory == \E i \in Inst, category \in CategoryArgs : GetByCategory(i, category)

Add ==
    \E i \in Inst, args \in AddArgs, io \in IoOutcomes :
        add_article(i, args[1], args[2], args[3], io)

Leave == \E i \in Inst : Exit(i)

CrashAdding == \E i \in Inst, args \in AddArgs : crash_in_add(i, args[1], args[2], args[3])

CrashSeeding == \E i \in Inst : crash_in_seed(i)

StoreNext ==
    \/ Construct
    \/ ReadAll
    \/ ReadById
    \/ ReadByCategory
    \/ Add
    \/ Leave
    \/ CrashAdding
    \/ CrashSeeding

Next == StoreNext /\ UNCHANGED <<sumVars, setupVars>>

Spec == Init /\ [][Next]_vars

(* One store instance and an environment in which every write completes.   *)

Single == "A"

ConstructSingle == load_data(Single, "ok")

ReadAllSingle == GetAll(Single)

ReadByIdSingle == \E article_id \in IdArgs(db[Single].data) : GetById(Single, article_id)

ReadByCategorySingle == \E category \in CategoryArgs : GetByCategory(Single, category)

AddSingle == \E args \in AddArgs : add_article(Single, args[1], args[2], args[3], "ok")

LeaveSingle == Exit(Single)

StoreNextSingle ==
    \/ ConstructSingle
    \/ ReadAllSingle
    \/ ReadByIdSingle
    \/ ReadByCategorySingle
    \/ AddSingle
    \/ LeaveSingle

NextSingle == StoreNextSingle /\ UNCHANGED <<sumVars, setupVars>>

SpecSingle == Init /\ [][NextSingle]_vars

(* ---------------------------- the summarizer ------------------------- *)
(* TextSummarizer.summarize and batch_summarize of src/0104.py. The model  *)
(* pipeline is outside the repository: a call of it either raises or       *)
(* returns a summary.                                                       *)

\* the length below which summarize rejects a text
MinTextLength == 50

\* texts in one batch_summarize call
MaxBatch == 2

\* SummarizationConfig.model_name
model_name == "facebook/bart-large-cnn"

RECURSIVE Repeat(_, _)
Repeat(ch, n) == IF n <= 0 THEN <<>> ELSE <<ch>> \o Repeat(ch, n - 1)

\* a text of n letters with spaces before and line breaks after it
Text(lead, n, trail) == Repeat(" ", lead) \o Repeat("x", n) \o Repeat("\n", trail)

\* the texts passed: empty, blank, and around the limit with and without
\* whitespace at the ends
Texts ==
    { <<>>,
      Text(30, 0, 30),
      Text(1, MinTextLength - 1, 1),
      Text(0, MinTextLength, 0),
      Text(2, MinTextLength, 1) }

\* what a call of self.pipeline does
PipelineOutcomes ==
    { [raises |-> FALSE, summary |-> <<"s", "u", "m">>],
      [raises |-> TRUE,  summary |-> <<>>] }

\* str(e) of the ValueError of summarize
TooShortMessage ==
    <<"T", "e", "x", "t", " ", "m", "u", "s", "t", " ", "b", "e", " ", "a",
      "t", " ", "l", "e", "a", "s", "t", " ", "5", "0", " ", "c", "h", "a",
      "r", "a", "c", "t", "e", "r", "s", " ", "l", "o", "n", "g">>

\* str(e) of an exception of the pipeline
PipelineMessage == <<"o", "o", "m">>

\* "Error: "
ErrorPrefix == <<"E", "r", "r", "o", "r", ":", " ">>

NoResult ==
    [original_text |-> <<>>, summary |-> <<>>, model_used |-> "",
     original_length |-> 0, summary_length |-> 0]

\* summarize checking the length of the text as passed
summarize_unstripped_check(text, outcome) ==
    IF text = <<>> \/ Len(text) < MinTextLength
    THEN [kind |-> "error", err |-> "ValueError", msg |-> TooShortMessage,
          invoked |-> <<>>, result |-> NoResult]
    ELSE LET stripped == strip(text)
         IN  IF outcome.raises
             THEN [kind |-> "error", err |-> "RuntimeError",
                   msg |-> PipelineMessage, invoked |-> <<stripped>>,
                   result |-> NoResult]
             ELSE [kind |-> "ok", err |-> "", msg |-> <<>>,
                   invoked |-> <<stripped>>,
                   result |-> [original_text |-> stripped,
                               summary |-> outcome.summary,
                               model_used |-> model_name,
                               original_length |-> Len(stripped),
                               summary_length |-> Len(outcome.summary)]]

\* summarize: what it returns or raises, and the texts it gave the pipeline
summarize(text, outcome) ==
    IF text = <<>> \/ Len(strip(text)) < MinTextLength
    THEN [kind |-> "error", err |-> "ValueError", msg |-> TooShortMessage,
          invoked |-> <<>>, result |-> NoResult]
    ELSE LET stripped == strip(text)
         IN  IF outcome.raises
             THEN [kind |-> "error", err |-> "RuntimeError",
                   msg |-> PipelineMessage, invoked |-> <<stripped>>,
                   result |-> NoResult]
             ELSE [kind |-> "ok", err |-> "", msg |-> <<>>,
                   invoked |-> <<stripped>>,
                   result |-> [original_text |-> stripped,
                               summary |-> outcome.summary,
                               model_used |-> model_name,
                               original_length |-> Len(stripped),
                               summary_length |-> Len(outcome.summary)]]

\* batch_summarize: the entry put in place of a result when summarize raised
error_entry(text, msg) ==
    [original_text |-> text, summary |-> ErrorPrefix \o msg,
     model_used |-> model_name, original_length |-> Len(text),
     summary_length |-> 0]

\* batch_summarize without the except clause: the first exception ends it
RECURSIVE batch_summarize_uncaught(_, _, _, _)
batch_summarize_uncaught(texts, outcomes, results, invoked) ==
    IF texts = <<>>
    THEN [kind |-> "ok", results |-> results, invoked |-> invoked]
    ELSE LET r == summarize(Head(texts), Head(outcomes))
         IN  IF r.kind = "ok"
             THEN batch_summarize_uncaught(Tail(texts), Tail(outcomes),
                                           Append(results, r.result),
                                           invoked \o r.invoked)
             ELSE [kind |-> "error", results |-> results,
                   invoked |-> invoked \o r.invoked]

\* batch_summarize: the loop over texts, from the results and pipeline calls
\* made so far
RECURSIVE batch_summarize(_, _, _, _)
batch_summarize(texts, outcomes, results, invoked) ==
    IF texts = <<>>
    THEN [kind |-> "ok", results |-> results, invoked |-> invoked]
    ELSE LET r == summarize(Head(texts), Head(outcomes))
         IN  batch_summarize(Tail(texts), Tail(outcomes),
                             Append(results,
                                    IF r.kind = "ok" THEN r.result
                                    ELSE error_entry(Head(texts), r.msg)),
                             invoked \o r.invoked)

\* the sequences over S of length up to n
SeqsUpTo(S, n) == UNION {[1..k -> S] : k \in 0..n}

\* summarizer.summarize(text)
Summarize(text, outcome) ==
    LET r == summarize(text, outcome)
    IN  /\ out' = [op |-> "summarize", texts |-> <<text>>,
                   outcomes |-> <<outcome>>, kind |-> r.kind, err |-> r.err,
                   results |-> IF r.kind = "ok" THEN <<r.result>> ELSE <<>>]
        /\ calls' = r.invoked
        /\ UNCHANGED <<storeVars, setupVars>>

\* summarizer.batch_summarize(texts)
BatchSummarize(texts, outcomes) ==
    LET r == batch_summarize(texts, outcomes, <<>>, <<>>)
    IN  /\ out' = [op |-> "batch", texts |-> texts, outcomes |-> outcomes,
                   kind |-> r.kind, err |-> "", results |-> r.results]
        /\ calls' = r.invoked
        /\ UNCHANGED <<storeVars, setupVars>>

SummarizeOne == \E text \in Texts, outcome \in PipelineOutcomes : Summarize(text, outcome)

SummarizeBatch ==
    \E texts \in SeqsUpTo(Texts, MaxBatch) :
        \E outcomes \in [1..Len(texts) -> PipelineOutcomes] :
            BatchSummarize(texts, outcomes)

\* the store as main leaves it when the summarizer is used alone
StoreIdle ==
    /\ file = Absent
    /\ db = [i \in Inst |-> NoInstance]
    /\ ret = NoRet
    /\ returned = [i \in Inst |-> <<>>]
    /\ lastWrite = NoRet
    /\ adds = 0
    /\ failed = [i \in Inst |-> <<>>]

InitSummarizer == StoreIdle /\ SummarizerInit /\ SetupIdle

NextSummarizer == SummarizeOne \/ SummarizeBatch

SpecSummarizer == InitSummarizer /\ [][NextSummarizer]_vars

(* ------------------------------ setup.py ------------------------------ *)
(* main of src/setup.py, one action for each step it calls. What a command *)
(* run through subprocess does is the environment's choice.                *)

\* check_python_version: version.major >= 3 and version.minor >= 8
MinMajor == 3

MinMinor == 8

\* sys.version_info (major, minor) of the interpreters setup.py is run with
Versions == { <<2, 7>>, <<3, 7>>, <<3, 8>>, <<3, 12>>, <<4, 0>> }

Envs ==
    { [major |-> v[1], minor |-> v[2], nt |-> nt, venv_exists |-> venv] :
        v \in Versions, nt \in BOOLEAN, venv \in BOOLEAN }

\* pip_cmd of install_dependencies
pip_cmd(e) == IF e.nt THEN "venv\\Scripts\\pip" ELSE "venv/bin/pip"

\* python_cmd of create_sample_data and run_tests
python_cmd(e) == IF e.nt THEN "venv\\Scripts\\python" ELSE "venv/bin/python"

Entry(step, cmd, ok) == [step |-> step, cmd |-> cmd, ok |-> ok]

\* check_python_version
check_python_version(e) == e.major >= MinMajor /\ e.minor >= MinMinor

\* install_dependencies failing when either pip command fails
install_result_both(upgraded, installed) == upgraded /\ installed

\* install_dependencies: the value returned, from what the two run_command
\* calls returned
install_result(upgraded, installed) == installed

\* sys.exit(1)
exit_1 ==
    /\ pc' = "exited"
    /\ status' = "1"

\* main: check_python_version()
CheckPythonVersion ==
    /\ pc = "check_python_version"
    /\ LET ok == check_python_version(env)
       IN  /\ log' = Append(log, Entry("check_python_version", "", ok))
           /\ IF ok
              THEN pc' = "create_virtual_environment" /\ status' = status
              ELSE exit_1
    /\ UNCHANGED <<env, storeVars, sumVars>>

\* main: create_virtual_environment()
CreateVirtualEnvironment ==
    /\ pc = "create_virtual_environment"
    /\ \E ran \in BOOLEAN :
          LET ok == env.venv_exists \/ ran
          IN  /\ env.venv_exists => ran
              /\ log' = Append(log, Entry("create_virtual_environment",
                                          IF env.venv_exists THEN "" ELSE "python",
                                          ok))
              /\ env' = [env EXCEPT !.venv_exists = ok]
              /\ IF ok
                 THEN pc' = "install_dependencies" /\ status' = status
                 ELSE exit_1
    /\ UNCHANGED <<storeVars, sumVars>>

\* main: install_dependencies()
InstallDependencies ==
    /\ pc = "install_dependencies"
    /\ \E upgraded \in BOOLEAN, installed \in BOOLEAN :
          /\ log' = log \o << Entry("upgrade_pip", pip_cmd(env), upgraded),
                              Entry("install_requirements", pip_cmd(env), installed) >>
          /\ IF install_result(upgraded, installed)
             THEN pc' = "create_sample_data" /\ status' = status
             ELSE exit_1
    /\ UNCHANGED <<env, storeVars, sumVars>>

\* main: create_sample_data(), its value dropped
CreateSampleData ==
    /\ pc = "create_sample_data"
    /\ \E ok \in BOOLEAN :
          log' = Append(log, Entry("create_sample_data", python_cmd(env), ok))
    /\ pc' = "run_tests"
    /\ UNCHANGED <<env, status, storeVars, sumVars>>

\* main: run_tests(), its value dropped
RunTests ==
    /\ pc = "run_tests"
    /\ \E ok \in BOOLEAN :
          log' = Append(log, Entry("run_tests", python_cmd(env), ok))
    /\ pc' = "completed"
    /\ UNCHANGED <<env, status, storeVars, sumVars>>

\* main: print("Setup completed successfully!") and the next steps, then
\* the script ends
Completed ==
    /\ pc = "completed"
    /\ log' = Append(log, Entry("completed", "", TRUE))
    /\ pc' = "exited"
    /\ status' = "0"
    /\ UNCHANGED <<env, storeVars, sumVars>>

InitSetup ==
    /\ StoreIdle
    /\ SummarizerInit
    /\ pc = "check_python_version"
    /\ env \in Envs
    /\ log = <<>>
    /\ status = "running"

NextSetup ==
    \/ CheckPythonVersion
    \/ CreateVirtualEnvironment
    \/ InstallDependencies
    \/ CreateSampleData
    \/ RunTests
    \/ Completed

SpecSetup == InitSetup /\ [][NextSetup]_vars

(* ------------------------- notions of the claims ----------------------- *)

Range(seq) == {seq[k] : k \in 1..Len(seq)}

IdsOf(articles) == {articles[k].id : k \in 1..Len(articles)}

IdSeq(articles) == [k \in 1..Len(articles) |-> articles[k].id]

Distinct(seq) == \A j, k \in 1..Len(seq) : j # k => seq[j] # seq[k]

\* one more than the largest id of a collection, 1 for the empty one
OneMoreThanMax(articles) ==
    IF Len(articles) = 0 THEN 1
    ELSE CHOOSE n \in {m + 1 : m \in IdsOf(articles)} :
             \A m \in IdsOf(articles) : m < n

\* s is c without the whitespace at its two ends
IsStripped(s, c) ==
    \E lo \in 0..Len(c) : \E hi \in lo..Len(c) :
        /\ s = SubSeq(c, lo + 1, hi)
        /\ \A k \in 1..lo : c[k] \in Whitespace
        /\ \A k \in (hi + 1)..Len(c) : c[k] \in Whitespace
        /\ lo < hi => c[lo + 1] \notin Whitespace /\ c[hi] \notin Whitespace

\* two characters that are the same letter in either case
SameLetter(x, y) ==
    \/ x = y
    \/ \E k \in 1..26 :
           \/ x = UpperCase[k] /\ y = LowerCase[k]
           \/ x = LowerCase[k] /\ y = UpperCase[k]

\* two texts equal up to letter case
SameIgnoringCase(a, b) ==
    /\ Len(a) = Len(b)
    /\ \A k \in 1..Len(a) : SameLetter(a[k], b[k])

\* the article an add_article call recorded in r has put into a collection
IsAddedBy(a, r) ==
    /\ a.title = r.title
    /\ a.category = r.category
    /\ IsStripped(a.content, r.content)

(* -------------------------------- claims ------------------------------- *)

\* C1: on one store instance the ids add returns are pairwise distinct, no
\* two articles of its collection share an id, and each returned id is one
\* more than the largest id in the collection just before the call (1 when
\* the collection is empty).
C1_IdsDistinctAndNext ==
    /\ [](\A i \in Inst :
            /\ Distinct(returned[i])
            /\ Distinct(IdSeq(get_articles(db[i].data))))
    /\ [][\A i \in Inst :
            (ret'.op = "add" /\ ret'.inst = i /\ ret'.kind = "ok") =>
                /\ ret'.id = OneMoreThanMax(get_articles(db[i].data))
                /\ returned'[i] = Append(returned[i], ret'.id)]_vars

\* two add calls have returned on one instance whose collection was loaded
\* from the file with ids 7, 2
C1_Witness ==
    \E i \in Inst :
        /\ returned[i] = <<8, 9>>
        /\ IdSeq(get_articles(db[i].data)) = <<7, 2, 8, 9>>

\* C2: constructing a store where no backing file exists, the seed write
\* completing, is not an error: the store holds exactly 3 articles with ids
\* 1, 2, 3 in that order, and the file exists afterwards and holds exactly
\* that collection.
C2_SeedOnMissingFile ==
    [][\A i \in Inst :
        (ret'.op = "init" /\ ret'.inst = i /\ file.kind = "absent" /\ ret'.io = "ok") =>
            /\ ret'.kind = "ok"
            /\ Loaded(i)'
            /\ IdSeq(get_articles(db'[i].data)) = <<1, 2, 3>>
            /\ file'.kind # "absent" /\ file'.kind = "json"
            /\ json_load(file') = db'[i].data]_vars

\* a store has just been constructed from no file
C2_Witness ==
    /\ ret.op = "init" /\ ret.io = "ok" /\ ret.kind = "ok"
    /\ lastWrite = ret
    /\ Len(get_articles(db[ret.inst].data)) = 3
    /\ file.kind = "json"

\* C3: after add succeeds and returns newId, constructing a fresh instance
\* from the same path, no other write of the file in between, gives a
\* collection that holds the added article under the id newId.
C3_AddSurvivesReload ==
    [][\A j \in Inst :
        (/\ ret'.op = "init" /\ ret'.inst = j /\ ret'.kind = "ok"
         /\ lastWrite.op = "add" /\ lastWrite.kind = "ok") =>
            \E k \in 1..Len(get_articles(db'[j].data)) :
                LET a == get_articles(db'[j].data)[k]
                IN  /\ a.id = lastWrite.id
                    /\ IsAddedBy(a, lastWrite)]_vars

\* a fresh instance has been constructed after an add of another instance,
\* which still holds the article under the returned id
C3_Witness ==
    /\ ret.op = "init" /\ ret.kind = "ok"
    /\ lastWrite.op = "add" /\ lastWrite.kind = "ok"
    /\ lastWrite.inst # ret.inst
    /\ Loaded(lastWrite.inst)
    /\ db[ret.inst].data = db[lastWrite.inst].data
    /\ lastWrite.id \in IdsOf(get_articles(db[ret.inst].data))

\* C4: add(t, c, cat) returning newId, followed by getById(newId) on the
\* same instance, returns an article whose content is c without its leading
\* and trailing whitespace and whose title and category are t and cat.
C4_AddThenGetById ==
    [][(/\ ret.op = "add" /\ ret.kind = "ok"
        /\ ret'.op = "get_by_id" /\ ret'.inst = ret.inst /\ ret'.id = ret.id) =>
            /\ Len(ret'.arts) = 1
            /\ ret'.arts[1].id = ret.id
            /\ IsAddedBy(ret'.arts[1], ret)]_vars

\* getById has returned the article of the instance's last add, its content
\* stripped of the whitespace the call was given around it
C4_Witness ==
    /\ ret.op = "get_by_id" /\ Len(ret.arts) = 1
    /\ returned[ret.inst] # <<>>
    /\ ret.id = returned[ret.inst][Len(returned[ret.inst])]
    /\ ret.arts[1] = Article(ret.id, "New", <<"x">>, <<"A", "i">>)

\* C5: when two instances hold the same loaded collection and each adds,
\* both writes completing, the file after the second write is the snapshot
\* of the second writer alone: the loaded collection and its one article,
\* the first writer's article (where it differs) gone, and neither add
\* raises.
C5_LastWriterWins ==
    [][\A i, j \in Inst :
        (/\ i # j
         /\ lastWrite.op = "add" /\ lastWrite.inst = i /\ lastWrite.io = "ok"
         /\ Loaded(j) /\ file.kind = "json" /\ Len(file.articles) > 0
         /\ get_articles(db[j].data) = SubSeq(file.articles, 1, Len(file.articles) - 1)
         /\ ret'.op = "add" /\ ret'.inst = j /\ ret'.io = "ok") =>
            LET base   == get_articles(db[j].data)
                first  == file.articles[Len(file.articles)]
            IN  /\ lastWrite.kind = "ok" /\ ret'.kind = "ok"
                /\ file'.kind = "json"
                /\ json_load(file') = db'[j].data
                /\ Len(file'.articles) = Len(base) + 1
                /\ SubSeq(file'.articles, 1, Len(base)) = base
                /\ IsAddedBy(file'.articles[Len(base) + 1], ret')
                /\ first # file'.articles[Len(base) + 1] =>
                       first \notin Range(file'.articles)]_vars

\* both instances loaded the seed collection, A added "New" and then B
\* added the untitled article: the file holds B's four articles
C5_Witness ==
    /\ lastWrite.op = "add" /\ lastWrite.inst = "B" /\ lastWrite.title = ""
    /\ returned["A"] = <<4>> /\ returned["B"] = <<4>>
    /\ get_articles(db["A"].data)[4].title = "New"
    /\ json_load(file) = db["B"].data
    /\ Len(file.articles) = 4

\* C6: when the file write inside add fails, the I/O error reaches the
\* caller and no id is returned, the instance's collection nevertheless
\* holds the new article under the id it was assigned, and the write has
\* put nothing of it into the file (the file is as before, or truncated).
C6_FailedWriteKeepsMemory ==
    [][\A i \in Inst :
        (ret'.op = "add" /\ ret'.inst = i /\ ret'.io \in {"openfail", "partial"}) =>
            LET old == get_articles(db[i].data)
                new == get_articles(db'[i].data)
            IN  /\ ret'.kind = "error" /\ ret'.err = "OSError"
                /\ returned' = returned
                /\ Len(new) = Len(old) + 1
                /\ SubSeq(new, 1, Len(old)) = old
                /\ new[Len(new)].id = OneMoreThanMax(old)
                /\ IsAddedBy(new[Len(new)], ret')
                /\ file' = file \/ file'.kind = "malformed"
                /\ (file.kind = "json" /\ json_load(file) = db[i].data) =>
                       (file'.kind = "json" => new[Len(new)] \notin Range(file'.articles))]_vars

\* an add has raised on a failed open: the collection is one article ahead
\* of the unchanged file
C6_Witness ==
    /\ ret.op = "add" /\ ret.io = "openfail" /\ ret.kind = "error"
    /\ file.kind = "json"
    /\ Len(get_articles(db[ret.inst].data)) = Len(file.articles) + 1
    /\ returned[ret.inst] = <<>>

\* C7: getById returns the article whose id is the argument when the
\* collection has one, and the null result, without raising, when it has
\* none; either way the collection and the file are as before.
C7_GetByIdHitOrNone ==
    [][\A i \in Inst :
        (ret'.op = "get_by_id" /\ ret'.inst = i) =>
            LET articles == get_articles(db[i].data)
            IN  /\ ret'.kind = "ok"
                /\ ret'.id \in IdsOf(articles) =>
                       /\ Len(ret'.arts) = 1
                       /\ ret'.arts[1].id = ret'.id
                       /\ ret'.arts[1] \in Range(articles)
                /\ ret'.id \notin IdsOf(articles) => ret'.arts = <<>>
                /\ db' = db /\ file' = file]_vars

\* getById missed on a collection that holds articles
C7_Witness ==
    /\ ret.op = "get_by_id" /\ ret.id = MissingId /\ ret.kind = "ok"
    /\ ret.arts = <<>>
    /\ Len(get_articles(db[ret.inst].data)) >= 3

\* C8: getByCategory returns exactly the articles whose category equals the
\* argument up to letter case, in the order of the collection, so that two
\* arguments differing in case only give the same result; with no match it
\* returns the empty sequence and does not raise.
C8_CategoryIgnoresCase ==
    [][\A i \in Inst :
        (ret'.op = "get_by_category" /\ ret'.inst = i) =>
            LET same(a) == SameIgnoringCase(a.category, ret'.category)
            IN  /\ ret'.kind = "ok"
                /\ ret'.arts = SelectSeq(get_articles(db[i].data), same)
                /\ \A other \in CategoryArgs :
                       SameIgnoringCase(other, ret'.category) =>
                           get_articles_by_category(db[i].data, other) = ret'.arts]_vars

\* getByCategory has returned two articles, one of them stored with another
\* spelling of the category than the argument
C8_Witness ==
    /\ ret.op = "get_by_category" /\ ret.category = <<"a", "I">>
    /\ Len(ret.arts) = 2
    /\ \E k \in 1..2 : ret.arts[k].category # ret.category

\* C9: constructing a store on a file that exists and is not well-formed
\* JSON fails with the parse error, and nothing is recovered: the file is
\* not written, no seed data appears, no instance exists.
C9_MalformedFilePropagates ==
    [][\A i \in Inst :
        (ret'.op = "init" /\ ret'.inst = i /\ file.kind = "malformed") =>
            /\ ret'.kind = "error" /\ ret'.err = "JSONDecodeError"
            /\ file' = file
            /\ db' = db /\ ~Loaded(i)']_vars

\* a constructor has raised the parse error on a file an add had truncated
C9_Witness ==
    /\ ret.op = "init" /\ ret.kind = "error" /\ ret.err = "JSONDecodeError"
    /\ lastWrite.op = "add" /\ lastWrite.io = "partial"
    /\ file.kind = "malformed"

\* C10: with one store instance and no write failure, between operations
\* the file holds exactly the instance's collection, the same articles in
\* the same order: every add writes all of it.
C10_FileIsCollection ==
    Loaded(Single) =>
        /\ file.kind = "json"
        /\ json_load(file) = db[Single].data
        /\ file.articles = get_all_articles(db[Single].data)

\* two adds have returned on the instance that seeded the file
C10_Witness ==
    /\ Loaded(Single)
    /\ Len(returned[Single]) = 2
    /\ Len(file.articles) = 5

\* C11: the store keeps insertion order: add puts the new article after
\* all the others and leaves each of them, and their order, as it was, and
\* getAll returns the sequence in that order.
C11_InsertionOrder ==
    [][\A i \in Inst :
        /\ (ret'.op = "add" /\ ret'.inst = i /\ ret'.kind \in {"ok", "error"}) =>
              LET old == get_articles(db[i].data)
                  new == get_articles(db'[i].data)
              IN  /\ Len(new) = Len(old) + 1
                  /\ \A k \in 1..Len(old) : new[k] = old[k]
                  /\ IsAddedBy(new[Len(new)], ret')
        /\ (ret'.op = "get_all" /\ ret'.inst = i) =>
              /\ Len(ret'.arts) = Len(get_articles(db[i].data))
              /\ \A k \in 1..Len(ret'.arts) :
                     ret'.arts[k] = get_articles(db[i].data)[k]]_vars

\* getAll has returned the articles of the hand-edited file followed by the
\* added one: in insertion order, not in the order of the ids
C11_Witness ==
    /\ ret.op = "get_all"
    /\ IdSeq(ret.arts) = <<7, 2, 8>>
    /\ returned[ret.inst] = <<8>>

\* C12: getAll, getById and getByCategory have no side effect: each leaves
\* the collections and the file as they were, whatever the arguments.
C12_ReadsChangeNothing ==
    [][ret'.op \in {"get_all", "get_by_id", "get_by_category"} =>
          /\ db' = db
          /\ file' = file]_vars

\* a read has returned on an instance whose collection is ahead of the
\* file: nothing was flushed
C12_Witness ==
    /\ ret.op = "get_by_category" /\ ret.kind = "ok"
    /\ file.kind = "json"
    /\ Len(get_articles(db[ret.inst].data)) = Len(file.articles) + 1
    /\ failed[ret.inst] # <<>>

\* C13: after any sequence of add calls with arbitrary titles, every
\* article a store holds has a non-empty title.
C13_TitlesNonEmpty ==
    \A i \in Inst :
        \A k \in 1..Len(get_articles(db[i].data)) :
            get_articles(db[i].data)[k].title # ""

\* C14: an instance reads the file at construction only: a call of another
\* instance, writes included, leaves its collection alone, and its getAll,
\* getById and getByCategory answer from that collection.
C14_NoReload ==
    [][\A i \in Inst :
        LET own == get_articles(db[i].data)
            same(a) == SameIgnoringCase(a.category, ret'.category)
        IN  /\ (Loaded(i) /\ ret'.inst # i) => db'[i] = db[i]
            /\ (ret'.op = "get_all" /\ ret'.inst = i) => ret'.arts = own
            /\ (ret'.op = "get_by_id" /\ ret'.inst = i) =>
                  /\ Range(ret'.arts) \subseteq Range(own)
                  /\ ret'.arts # <<>> <=> ret'.id \in IdsOf(own)
            /\ (ret'.op = "get_by_category" /\ ret'.inst = i) =>
                  ret'.arts = SelectSeq(own, same)]_vars

\* getAll on A has returned A's collection after B's add put one more
\* article into the file
C14_Witness ==
    /\ ret.op = "get_all" /\ ret.inst = "A"
    /\ lastWrite.op = "add" /\ lastWrite.inst = "B" /\ lastWrite.kind = "ok"
    /\ file.kind = "json"
    /\ Len(file.articles) = Len(ret.arts) + 1
    /\ ret.arts = get_articles(db["A"].data)

\* C15: the write of add is not atomic: when the process dies after the
\* file was opened for writing and before the write is complete, the file
\* holds content that is neither the collection before the add (when the
\* file held one) nor the collection after it.
C15_CrashCorruptsFile ==
    [][\A i \in Inst :
        (ret'.op = "add" /\ ret'.inst = i /\ ret'.kind = "crash") =>
            /\ file'.kind = "malformed"
            /\ file.kind = "json" => file' # file
            /\ \A a \in Range(file'.articles) : ~IsAddedBy(a, ret')]_vars

\* the first add of a behaviour died in its write: the file its instance
\* had loaded is now unreadable
C15_Witness ==
    /\ ret.op = "add" /\ ret.kind = "crash"
    /\ adds = 1
    /\ file.kind = "malformed"

\* C19: an article whose add raised on the write stays with its instance:
\* the next add of that instance whose write completes gets a larger id and
\* writes both articles, so that the file holds an article under an id that
\* no add of the instance returned.
C19_FailedAddPersistedLater ==
    [][\A i \in Inst :
        (ret'.op = "add" /\ ret'.inst = i /\ ret'.kind = "ok") =>
            \A k \in 1..Len(failed[i]) :
                LET p == failed[i][k]
                IN  /\ ret'.id > p
                    /\ file'.kind = "json"
                    /\ {p, ret'.id} \subseteq IdsOf(file'.articles)
                    /\ \A a \in Range(get_articles(db[i].data)) :
                           a.id = p => a \in Range(file'.articles)
                    /\ p \notin Range(returned'[i])]_vars

\* on the seed collection an add raised and the next one returned 5: the
\* file holds the ids 1 to 5, and 4 was returned by nobody
C19_Witness ==
    /\ ret.op = "add" /\ ret.kind = "ok" /\ ret.id = 5
    /\ failed[ret.inst] = <<4>>
    /\ returned[ret.inst] = <<5>>
    /\ file.kind = "json"
    /\ IdSeq(file.articles) = <<1, 2, 3, 4, 5>>
    /\ \A j \in Inst : 4 \notin Range(returned[j])

\* C20: under any interleaving of the adds of several instances on one
\* file, each write one step and the first file with unique ids, the ids in
\* the file are pairwise distinct, although two instances may return the
\* same id for different articles.
C20_FileIdsDistinct ==
    file.kind = "json" => Distinct(IdSeq(file.articles))

\* A and B have both returned the id 4, for articles that differ
C20_Witness ==
    /\ returned["A"] = <<4>> /\ returned["B"] = <<4>>
    /\ get_articles(db["A"].data)[4] # get_articles(db["B"].data)[4]
    /\ file.kind = "json"
    /\ Len(file.articles) = 4

\* the index set of the characters of a text that are not whitespace
Inked(text) == {k \in 1..Len(text) : text[k] \notin Whitespace}

\* the length of a text from its first to its last non-whitespace character
InkedLength(text) ==
    IF Inked(text) = {} THEN 0
    ELSE LET lo == CHOOSE k \in Inked(text) : \A j \in Inked(text) : k <= j
             hi == CHOOSE k \in Inked(text) : \A j \in Inked(text) : j <= k
         IN  hi - lo + 1

\* the texts summarize must reject
TooShort(text) == text = <<>> \/ InkedLength(text) < 50

StartsWith(seq, prefix) ==
    /\ Len(seq) >= Len(prefix)
    /\ SubSeq(seq, 1, Len(prefix)) = prefix

\* C16: summarize raises, without calling the pipeline, whenever the text
\* is empty or has fewer than 50 characters once the whitespace at its ends
\* is removed; in every other case it calls the pipeline, once, on the text
\* with that whitespace removed.
C16_SummarizeValidates ==
    out.op = "summarize" =>
        LET text == out.texts[1]
        IN  IF TooShort(text)
            THEN /\ out.kind = "error" /\ out.err = "ValueError"
                 /\ calls = <<>>
            ELSE /\ Len(calls) = 1
                 /\ IsStripped(calls[1], text)
                 /\ out.kind = "ok" <=> ~out.outcomes[1].raises

\* summarize has rejected a text of 51 characters, 49 of them between the
\* whitespace, and the pipeline was not called
C16_Witness ==
    /\ out.op = "summarize" /\ out.err = "ValueError"
    /\ Len(out.texts[1]) = 51
    /\ InkedLength(out.texts[1]) = 49
    /\ calls = <<>>

\* C17: batch_summarize returns one result for each input, in the order of
\* the inputs, and never raises: for an input summarize rejects, the entry
\* has a summary starting with "Error: " and summary_length 0, and the
\* inputs after it are processed all the same.
C17_BatchNeverRaises ==
    out.op = "batch" =>
        LET accepted == SelectSeq(out.texts, LAMBDA t : ~TooShort(t))
        IN  /\ out.kind = "ok"
            /\ Len(out.results) = Len(out.texts)
            /\ \A k \in 1..Len(out.texts) :
                  LET text == out.texts[k]
                      entry == out.results[k]
                  IN  IF TooShort(text) \/ out.outcomes[k].raises
                      THEN /\ StartsWith(entry.summary, ErrorPrefix)
                           /\ entry.summary_length = 0
                           /\ entry.original_text = text
                      ELSE /\ IsStripped(entry.original_text, text)
                           /\ entry.summary = out.outcomes[k].summary
                           /\ entry.summary_length = Len(entry.summary)
            /\ Len(calls) = Len(accepted)
            /\ \A k \in 1..Len(calls) : IsStripped(calls[k], accepted[k])

\* a batch of a rejected text followed by an accepted one: an error entry,
\* then the summary of the second text
C17_Witness ==
    /\ out.op = "batch" /\ Len(out.texts) = 2
    /\ TooShort(out.texts[1]) /\ ~TooShort(out.texts[2])
    /\ StartsWith(out.results[1].summary, ErrorPrefix)
    /\ out.results[2].summary = <<"s", "u", "m">>
    /\ Len(calls) = 1

\* the steps of setup.py in the order main runs them
SetupOrder ==
    << "check_python_version", "create_virtual_environment", "upgrade_pip",
       "install_requirements", "create_sample_data", "run_tests", "completed" >>

\* the steps whose failure ends the script
Decisive == {"check_python_version", "create_virtual_environment",
             "install_requirements"}

Failed(step) == \E k \in 1..Len(log) : log[k].step = step /\ ~log[k].ok

Succeeded(step) == \E k \in 1..Len(log) : log[k].step = step /\ log[k].ok

\* C18: setup.py runs version check, virtual environment, dependencies,
\* sample data and tests in that order; when one of the first three fails
\* it exits with status 1 and runs nothing after it; it prints "Setup
\* completed successfully" exactly when the first three succeed, whatever
\* the pip upgrade, the sample data and the tests did.
C18_SetupOrderAndExit ==
    status # "idle" =>
        /\ Len(log) <= Len(SetupOrder)
        /\ \A k \in 1..Len(log) : log[k].step = SetupOrder[k]
        /\ status = "1" <=> \E step \in Decisive : Failed(step)
        /\ \A k \in 1..Len(log) :
              (log[k].step \in Decisive /\ ~log[k].ok) => k = Len(log)
        /\ status = "0" <=> Succeeded("completed")
        /\ Succeeded("completed") => \A step \in Decisive : Succeeded(step)
        /\ (\A step \in Decisive : Succeeded(step)) => status # "1"
        /\ status = "running" => ENABLED NextSetup

\* the script has completed although the pip upgrade, the sample data and
\* the tests all failed
C18_Witness ==
    /\ status = "0"
    /\ Succeeded("completed")
    /\ Failed("upgrade_pip") /\ Failed("create_sample_data") /\ Failed("run_tests")

\* the articles instance i was constructed with: its collection without
\* the articles its own adds, returned or failed, have appended since
InitialArticles(i) ==
    LET own == get_articles(db[i].data)
    IN  SubSeq(own, 1, Len(own) - Len(returned[i]) - Len(failed[i]))

\* C21: in an instance constructed with the seed data or with an empty
\* article list, after any adds, those whose write failed included, the
\* ids of the in-memory articles are 1, 2, ..., n in that order, n the
\* number of articles.
C21_IdsCountUp ==
    \A i \in Inst :
        (/\ Loaded(i)
         /\ InitialArticles(i) \in {get_articles(default_data), <<>>}) =>
            LET own == get_articles(db[i].data)
            IN  IdSeq(own) = [k \in 1..Len(own) |-> k]

\* A, constructed with the seed data, holds five articles after an add
\* that returned and an add whose write failed
C21_Witness ==
    /\ Loaded("A")
    /\ InitialArticles("A") = get_articles(default_data)
    /\ Len(returned["A"]) = 1 /\ Len(failed["A"]) = 1
    /\ Len(get_articles(db["A"].data)) = 5

\* C22: the seed is written only when there is no file: constructing a
\* store on a well-formed file, one with an empty article list included,
\* returns, writes nothing and adds no seed article, and getAll, nothing
\* added since, returns exactly the collection of the file.
C22_NoSeedOnExistingFile ==
    [][\A i \in Inst :
        /\ (ret'.op = "init" /\ ret'.inst = i /\ file.kind = "json") =>
              /\ ret'.kind = "ok"
              /\ file' = file
              /\ lastWrite' = lastWrite
              /\ Loaded(i)'
              /\ get_articles(db'[i].data) = file.articles
        /\ (ret'.op = "get_all" /\ ret'.inst = i /\ adds = 0 /\ file.kind = "json") =>
              ret'.arts = file.articles]_vars

\* getAll has returned no article from a store constructed on a file with
\* an empty article list, the file never written
C22_Witness ==
    /\ ret.op = "get_all" /\ ret.kind = "ok" /\ ret.arts = <<>>
    /\ file.kind = "json" /\ file.keyed /\ file.articles = <<>>
    /\ lastWrite = NoRet
    /\ adds = 0

====
